---- MODULE Spec2Model ----
(***************************************************************************)
(* A model of media-renamer: the directory walker (dir_walker.rs), the     *)
(* filename parser (name_parser.rs), the destination path synthesis        *)
(* (media.rs) and the per-file pipeline (main.rs).                         *)
(*                                                                         *)
(* Text is modelled as a sequence of one-character strings, so that        *)
(* replacement, matching, formatting and path joining are computed.        *)
(***************************************************************************)
EXTENDS Integers, Sequences, FiniteSets, TLC

VARIABLES
    fs,              \* the directory tree under the input path: node -> [kind, name]
    iterator_queue,  \* DirWalker.iterator_queue
    args_max_depth,  \* Args.max_depth, as given on the command line
    max_depth,       \* DirWalker.max_depth (None or a number)
    ignored_dirs,    \* DirWalker.ignored_dirs
    emitted,         \* the Some(..) results of DirWalker::next so far, in order
    exhausted,       \* the directories whose cursor was found exhausted, in order
    ended,           \* TRUE once DirWalker::next has returned None
    file_path,       \* parse_filepath: the path argument
    config,          \* the Config: tv_regex, movie_regex, replacements
    stem_text,       \* parse_filepath: the stem after the replacements (None before)
    parsed_stem,     \* parse_filepath: what parse_stem returned
    parsed_file,     \* parse_filepath: the return value
    parse_done,      \* TRUE once parse_filepath has returned
    tv_file,         \* get_path: a MediaFile with MediaData::TvSeries
    movie_file,      \* get_path: a MediaFile with MediaData::Movie
    tv_path,         \* get_path of tv_file (None before the call)
    movie_path,      \* get_path of movie_file (None before the call)
    args,            \* the Args of the run: action and output
    files,           \* the paths main hands to process_file, in order
    next_file,       \* the index in files of the next call of process_file
    dest,            \* the files under the output directory: [path, from]
    dirs,            \* the directories create_dir_all has made
    sources,         \* the input files still in place
    log              \* one record per finished call of process_file

walkerVars == <<fs, args_max_depth, iterator_queue, max_depth, ignored_dirs, emitted, exhausted, ended>>

parserVars == <<file_path, config, stem_text, parsed_stem, parsed_file, parse_done>>

pathVars == <<tv_file, movie_file, tv_path, movie_path>>

procVars == <<args, files, next_file, dest, dirs, sources, log>>

\* Option<T>: None is the empty sequence and Some(x) the sequence <<x>>
None == <<>>

Some(x) == <<x>>

(***************************************************************************)
(* The directory tree.  Node 0 is the input path; nodes 1 and 2 are its    *)
(* entries and node n > 2 is the only entry of node n - 1, so node 1 has   *)
(* no entries and a chain hangs below node 2.  read_dir lists the entries  *)
(* of a directory by increasing node.                                      *)
(***************************************************************************)
NumNodes == 3
MaxDepthArg == 3

Nodes == 0..NumNodes

OrdinaryNames == <<"a", "b", "c", "d", "e", "f", "g", "h">>

Excluded == "Sample"

parent(n) == IF n <= 2 THEN 0 ELSE n - 1

RECURSIVE ChildrenFrom(_, _)
ChildrenFrom(d, n) ==
    IF n > NumNodes THEN <<>>
    ELSE IF parent(n) = d THEN <<n>> \o ChildrenFrom(d, n + 1)
    ELSE ChildrenFrom(d, n + 1)

Children(d) == ChildrenFrom(d, 1)

\* "dir": a readable directory; "baddir": a directory fs::read_dir fails on;
\* "file": a regular file; "ioerr": a slot for which ReadDir::next yields Err.
Kinds == {"dir", "baddir", "file", "ioerr"}

NodeChoices(n) ==
    { [kind |-> k, name |-> nm] :
        k \in (IF n = 0 THEN Kinds \ {"ioerr"} ELSE Kinds),
        nm \in {Excluded, OrdinaryNames[n + 1]} }

Trees ==
    { t \in [Nodes -> UNION { NodeChoices(n) : n \in Nodes }] :
        /\ \A n \in Nodes : t[n] \in NodeChoices(n)
        \* two entries of one directory never share a name
        /\ \A m, n \in Nodes \ {0} :
              (m # n /\ parent(m) = parent(n)) => t[m].name # t[n].name
        \* an unreadable slot has no name to speak of
        /\ \A n \in Nodes : t[n].kind = "ioerr" => t[n].name # Excluded }

is_dir(n) == fs[n].kind \in {"dir", "baddir"}

get_filename(n) == fs[n].name

\* fs::read_dir(path): a cursor over the entries, or the error
read_dir(n) ==
    IF fs[n].kind = "dir"
    THEN [ok |-> TRUE, dir |-> n, rest |-> Children(n)]
    ELSE [ok |-> FALSE, dir |-> n, rest |-> <<>>]

\* the element ReadDir::next yields for a slot: Ok(entry) or Err
EntryItem(n) ==
    IF fs[n].kind = "ioerr" THEN [ok |-> FALSE, node |-> n, at |-> "entry"]
    ELSE [ok |-> TRUE, node |-> n, at |-> "entry"]

OpenError(n) == [ok |-> FALSE, node |-> n, at |-> "open"]

\* DirWalker::new
NewQueue == <<read_dir(0)>>

IsIgnoredNever(n) == FALSE

\* get_filename(&entry.path()).is_some_and(|name| self.ignored_dirs.contains(&name))
IsIgnored(n) == get_filename(n) \in ignored_dirs

DepthSpentBelowZero(md) == md # None /\ md[1] < 0

\* self.max_depth.is_some_and(|val| val <= 0)
DepthSpent(md) == md # None /\ md[1] <= 0

DecrementDepthNever(md) == md

\* self.max_depth.map(|val| val - 1)
DecrementDepth(md) == IF md = None THEN None ELSE Some(md[1] - 1)

EnqueueTwice(rest, e) ==
    IF EntryItem(e).ok /\ is_dir(e) /\ ~IsIgnored(e)
    THEN Append(Append(rest, read_dir(e)), read_dir(e))
    ELSE rest

EnqueueReadable(rest, e) ==
    IF EntryItem(e).ok /\ is_dir(e) /\ ~IsIgnored(e) /\ read_dir(e).ok
    THEN Append(rest, read_dir(e))
    ELSE rest

\* the queue after the entry of node e was read from the front cursor
Enqueue(rest, e) ==
    IF EntryItem(e).ok /\ is_dir(e) /\ ~IsIgnored(e)
    THEN Append(rest, read_dir(e))
    ELSE rest

\* The loop of DirWalker::next: the queue, the budget and the exhausted
\* cursors it leaves, and the item it returns (None at the end).
RECURSIVE WalkLoop(_, _, _)
WalkLoop(q, md, ex) ==
    IF q = <<>> THEN [queue |-> q, depth |-> md, ex |-> ex, item |-> None]
    ELSE
        LET iter_res == Head(q)
            rest == Tail(q)
        IN  IF DepthSpent(md)
            THEN [queue |-> rest, depth |-> md, ex |-> ex, item |-> None]
            ELSE IF ~iter_res.ok
            THEN [queue |-> rest, depth |-> md, ex |-> ex,
                  item |-> Some(OpenError(iter_res.dir))]
            ELSE IF iter_res.rest # <<>>
            THEN LET e == Head(iter_res.rest)
                     iter == [iter_res EXCEPT !.rest = Tail(@)]
                 IN  [queue |-> <<iter>> \o Enqueue(rest, e), depth |-> md,
                      ex |-> ex, item |-> Some(EntryItem(e))]
            ELSE WalkLoop(rest, DecrementDepth(md), Append(ex, iter_res.dir))

WalkInit ==
    /\ fs \in Trees
    /\ args_max_depth \in {None} \cup { Some(d) : d \in 0..MaxDepthArg }
    /\ max_depth = args_max_depth
    /\ ignored_dirs \in {{}, {Excluded}}
    /\ iterator_queue = NewQueue
    /\ emitted = <<>>
    /\ exhausted = <<>>
    /\ ended = FALSE

\* one call of DirWalker::next that returns Some(item)
NextSome ==
    LET r == WalkLoop(iterator_queue, max_depth, exhausted)
    IN  /\ r.item # None
        /\ iterator_queue' = r.queue
        /\ max_depth' = r.depth
        /\ exhausted' = r.ex
        /\ emitted' = Append(emitted, r.item[1])
        /\ UNCHANGED <<fs, args_max_depth, ignored_dirs, ended>>
        /\ UNCHANGED <<parserVars, pathVars, procVars>>

\* one call of DirWalker::next that returns None
NextNone ==
    LET r == WalkLoop(iterator_queue, max_depth, exhausted)
    IN  /\ r.item = None
        /\ iterator_queue' = r.queue
        /\ max_depth' = r.depth
        /\ exhausted' = r.ex
        /\ ended' = TRUE
        /\ UNCHANGED <<fs, args_max_depth, ignored_dirs, emitted>>
        /\ UNCHANGED <<parserVars, pathVars, procVars>>

(***************************************************************************)
(* Text: a string is a sequence of one-character strings.                  *)
(***************************************************************************)
Digits == <<"0", "1", "2", "3", "4", "5", "6", "7", "8", "9">>

DigitSet == { Digits[i] : i \in DOMAIN Digits }

Chars == DigitSet \cup {"A", "B", "S", "E", "s", "e", "x", " ", ".", "-", "(", ")", "/"}

DigitVal(c) == (CHOOSE i \in DOMAIN Digits : Digits[i] = c) - 1

StartsWith(s, pre) == Len(s) >= Len(pre) /\ SubSeq(s, 1, Len(pre)) = pre

Drop(s, k) == SubSeq(s, k + 1, Len(s))

RECURSIVE Interleave(_, _)
\* "abc".replace("", "-") = "-a-b-c-"
Interleave(s, to) ==
    IF s = <<>> THEN to ELSE to \o <<Head(s)>> \o Interleave(Tail(s), to)

RECURSIVE Replace(_, _, _)
\* str::replace: every non-overlapping occurrence of `from`, left to right
Replace(s, from, to) ==
    IF from = <<>> THEN Interleave(s, to)
    ELSE IF s = <<>> THEN <<>>
    ELSE IF StartsWith(s, from) THEN to \o Replace(Drop(s, Len(from)), from, to)
    ELSE <<Head(s)>> \o Replace(Tail(s), from, to)

RECURSIVE ApplyReplacements(_, _)
\* the loop over config.replacements in parse_filepath
ApplyReplacements(stem, reps) ==
    IF reps = <<>> THEN stem
    ELSE ApplyReplacements(Replace(stem, reps[1][1], reps[1][2]), Tail(reps))

(***************************************************************************)
(* u32.  A u32 is held as its decimal digits without leading zeros, the    *)
(* text Display prints for it: the values up to 2^32 - 1 are wider than    *)
(* the integers of the checker.                                            *)
(***************************************************************************)
U32MaxDigits == <<"4", "2", "9", "4", "9", "6", "7", "2", "9", "5">>

RECURSIVE StripZeros(_)
StripZeros(d) ==
    IF Len(d) > 1 /\ Head(d) = "0" THEN StripZeros(Tail(d)) ELSE d

RECURSIVE DigitsLeq(_, _)
\* a <= b for digit strings of one length
DigitsLeq(a, b) ==
    IF a = <<>> THEN TRUE
    ELSE IF DigitVal(Head(a)) < DigitVal(Head(b)) THEN TRUE
    ELSE IF DigitVal(Head(a)) > DigitVal(Head(b)) THEN FALSE
    ELSE DigitsLeq(Tail(a), Tail(b))

FitsU32(d) ==
    \/ Len(d) < Len(U32MaxDigits)
    \/ Len(d) = Len(U32MaxDigits) /\ DigitsLeq(d, U32MaxDigits)

\* str::parse::<u32>: an optional "+", then one or more digits, no overflow
ParseU32(str) ==
    LET body == IF str # <<>> /\ Head(str) = "+" THEN Tail(str) ELSE str
    IN  IF body = <<>> \/ \E i \in DOMAIN body : body[i] \notin DigitSet THEN None
        ELSE IF ~FitsU32(StripZeros(body)) THEN None
        ELSE Some(StripZeros(body))

\* format!("{}", n)
Display(n) == n

\* format!("{:0>2}", n)
Pad2(n) == IF Len(n) < 2 THEN <<"0">> \o n ELSE n

\* Regular expressions.  A pattern is [valid, toks]: `valid` says whether
\* Regex::new compiles it, and toks is its sequence of tokens:
\*   [t |-> "lit", set]             one character of the set
\*   [t |-> "grp", name, set, min]  a named group repeating the set, greedy,
\*                                  min = 0 for a star and 1 for a plus
\* captures() searches for the leftmost match and prefers the longer
\* repetition, backtracking, as the regex crate's leftmost-first rule does.
GroupNames == {"name", "season", "episode", "year"}

NoCaptures == [g \in GroupNames |-> None]

NoMatch == [ok |-> FALSE, caps |-> NoCaptures]

RECURSIVE RunLength(_, _, _)
\* how many characters from pos on are in the set
RunLength(s, pos, set) ==
    IF pos <= Len(s) /\ s[pos] \in set THEN 1 + RunLength(s, pos + 1, set) ELSE 0

RECURSIVE MatchFrom(_, _, _, _)
RECURSIVE MatchGroup(_, _, _, _, _)
MatchFrom(toks, i, s, pos) ==
    IF i > Len(toks) THEN [ok |-> TRUE, caps |-> NoCaptures]
    ELSE IF toks[i].t = "lit"
    THEN IF pos <= Len(s) /\ s[pos] \in toks[i].set
         THEN MatchFrom(toks, i + 1, s, pos + 1)
         ELSE NoMatch
    ELSE MatchGroup(toks, i, s, pos, RunLength(s, pos, toks[i].set))

MatchGroup(toks, i, s, pos, k) ==
    IF k < toks[i].min THEN NoMatch
    ELSE LET r == MatchFrom(toks, i + 1, s, pos + k)
         IN  IF r.ok
             THEN [ok |-> TRUE,
                   caps |-> [r.caps EXCEPT ![toks[i].name] =
                                Some(SubSeq(s, pos, pos + k - 1))]]
             ELSE MatchGroup(toks, i, s, pos, k - 1)

RECURSIVE Search(_, _, _)
Search(toks, s, pos) ==
    IF pos > Len(s) + 1 THEN NoMatch
    ELSE LET r == MatchFrom(toks, 1, s, pos)
         IN  IF r.ok THEN r ELSE Search(toks, s, pos + 1)

\* Regex::captures: None, or the captures of the leftmost match
Captures(re, s) ==
    LET r == Search(re.toks, s, 1) IN IF r.ok THEN Some(r.caps) ELSE None

(***************************************************************************)
(* name_parser.rs                                                          *)
(***************************************************************************)
TvSeries(season, episode) == [type |-> "TvSeries", season |-> season, episode |-> episode]

Movie(year) == [type |-> "Movie", year |-> year]

\* the rest of the body of the loop over config.tv_regex once the pattern
\* has compiled, given what re.captures(&stem) returned: None stands for
\* `continue`, Some(..) for the `return`
TvFromCaptures(captures) ==
    IF captures = None THEN None
    ELSE IF captures[1]["name"] = None THEN None
    ELSE IF captures[1]["season"] = None THEN None
    ELSE IF ParseU32(captures[1]["season"][1]) = None THEN None
    ELSE IF captures[1]["episode"] = None THEN None
    ELSE IF ParseU32(captures[1]["episode"][1]) = None THEN None
    ELSE Some([name |-> captures[1]["name"][1],
               media_data |-> TvSeries(ParseU32(captures[1]["season"][1])[1],
                                       ParseU32(captures[1]["episode"][1])[1])])

\* the body of the loop over config.tv_regex, for one pattern
TryTvRegex(stem, re) ==
    IF ~re.valid THEN None ELSE TvFromCaptures(Captures(re, stem))

\* the rest of the body of the loop over config.movie_regex once the
\* pattern has compiled
MovieFromCaptures(captures) ==
    IF captures = None THEN None
    ELSE IF captures[1]["name"] = None THEN None
    ELSE IF captures[1]["year"] = None THEN None
    ELSE IF ParseU32(captures[1]["year"][1]) = None THEN None
    ELSE Some([name |-> captures[1]["name"][1],
               media_data |-> Movie(ParseU32(captures[1]["year"][1])[1])])

\* the body of the loop over config.movie_regex, for one pattern
TryMovieRegex(stem, re) ==
    IF ~re.valid THEN None ELSE MovieFromCaptures(Captures(re, stem))

TvChainLast(stem, regs) ==
    LET hits == { i \in DOMAIN regs : TryTvRegex(stem, regs[i]) # None }
    IN  IF hits = {} THEN None
        ELSE TryTvRegex(stem, regs[CHOOSE i \in hits : \A j \in hits : j <= i])

RECURSIVE TvChain(_, _)
\* for re_string in &config.tv_regex { .. }
TvChain(stem, regs) ==
    IF regs = <<>> THEN None
    ELSE LET r == TryTvRegex(stem, Head(regs))
         IN  IF r # None THEN r ELSE TvChain(stem, Tail(regs))

RECURSIVE MovieChain(_, _)
\* for re_string in &config.movie_regex { .. }
MovieChain(stem, regs) ==
    IF regs = <<>> THEN None
    ELSE LET r == TryMovieRegex(stem, Head(regs))
         IN  IF r # None THEN r ELSE MovieChain(stem, Tail(regs))

parse_stem_movie_first(stem, cfg) ==
    LET mv == MovieChain(stem, cfg.movie_regex)
    IN  IF mv # None THEN mv ELSE TvChain(stem, cfg.tv_regex)

parse_stem(stem, cfg) ==
    LET tv == TvChain(stem, cfg.tv_regex)
    IN  IF tv # None THEN tv ELSE MovieChain(stem, cfg.movie_regex)

(***************************************************************************)
(* path_utils.rs: a path is its text; Path::file_name is the last          *)
(* component, Path::file_stem and Path::extension split it at its last dot *)
(***************************************************************************)
RECURSIVE StripTrailing(_)
\* trailing separators and trailing "." components do not count
StripTrailing(p) ==
    IF Len(p) > 1 /\ p[Len(p)] = "/" THEN StripTrailing(SubSeq(p, 1, Len(p) - 1))
    ELSE IF Len(p) > 1 /\ p[Len(p)] = "." /\ p[Len(p) - 1] = "/"
    THEN StripTrailing(SubSeq(p, 1, Len(p) - 1))
    ELSE p

LastIndexOf(s, c) ==
    IF \E i \in DOMAIN s : s[i] = c
    THEN CHOOSE i \in DOMAIN s : s[i] = c /\ \A j \in DOMAIN s : s[j] = c => j <= i
    ELSE 0

file_name(path) ==
    LET p == StripTrailing(path)
        last == Drop(p, LastIndexOf(p, "/"))
    IN  IF last \in {<<>>, <<".">>, <<".", ".">>} THEN None ELSE Some(last)

file_stem(path) ==
    IF file_name(path) = None THEN None
    ELSE LET name == file_name(path)[1]
             dot == LastIndexOf(name, ".")
         IN  IF dot <= 1 THEN Some(name) ELSE Some(SubSeq(name, 1, dot - 1))

extension(path) ==
    IF file_name(path) = None THEN None
    ELSE LET name == file_name(path)[1]
             dot == LastIndexOf(name, ".")
         IN  IF dot <= 1 THEN None ELSE Some(Drop(name, dot))

get_filestem(path) == file_stem(path)

get_extension(path) == extension(path)

\* MediaFile::new
MediaFile(name, media_data, ext) ==
    [name |-> name, extension |-> ext, media_data |-> media_data]

\* the stem parse_filepath hands to parse_stem
NormalizedStem(path, cfg) == ApplyReplacements(get_filestem(path)[1], cfg.replacements)

\* the end of parse_filepath: Some(MediaFile::new(name, media_data,
\* get_extension(path)?)) from what parse_stem returned
WithExtension(path, r) ==
    IF r = None THEN None
    ELSE IF get_extension(path) = None THEN None
    ELSE Some(MediaFile(r[1].name, r[1].media_data, get_extension(path)[1]))

parse_filepath(path, cfg) ==
    IF get_filestem(path) = None THEN None
    ELSE WithExtension(path, parse_stem(NormalizedStem(path, cfg), cfg))

(***************************************************************************)
(* The inputs of the parser: patterns, replacements and file names         *)
(***************************************************************************)
MaxTvPatterns == 3
MaxMoviePatterns == 1

Lit(set) == [t |-> "lit", set |-> set]

Grp(name, set, min) == [t |-> "grp", name |-> name, set |-> set, min |-> min]

\* "(?<name>.*) [Ss](?<season>[0-9]+)[Ee](?<episode>[0-9]+)"
DefaultTvToks ==
    << Grp("name", Chars, 0), Lit({" "}), Lit({"S", "s"}), Grp("season", DigitSet, 1),
       Lit({"E", "e"}), Grp("episode", DigitSet, 1) >>

\* "(?<name>.*) (?<year>[0-9]+) "
DefaultMovieToks ==
    << Grp("name", Chars, 0), Lit({" "}), Grp("year", DigitSet, 1), Lit({" "}) >>

DefaultTvRegex == [valid |-> TRUE, toks |-> DefaultTvToks]

DefaultMovieRegex == [valid |-> TRUE, toks |-> DefaultMovieToks]

\* a pattern Regex::new rejects, such as one with an unclosed group
InvalidRegex == [valid |-> FALSE, toks |-> DefaultTvToks]

\* "(?<name>.*)[Ss](?<season>.+)[Ee](?<episode>[0-9]+)"
LooseTvRegex ==
    [valid |-> TRUE,
     toks |-> << Grp("name", Chars, 0), Lit({"S", "s"}), Grp("season", Chars, 1),
                 Lit({"E", "e"}), Grp("episode", DigitSet, 1) >>]

\* "(?<name>.*) [Ss](?<season>[0-9]+)": no group named episode
NoEpisodeRegex ==
    [valid |-> TRUE,
     toks |-> << Grp("name", Chars, 0), Lit({" "}), Lit({"S", "s"}),
                 Grp("season", DigitSet, 1) >>]

\* "(?<name>.*) (?<year>.+)"
LooseMovieRegex ==
    [valid |-> TRUE,
     toks |-> << Grp("name", Chars, 0), Lit({" "}), Grp("year", Chars, 1) >>]

TvPool == {DefaultTvRegex, InvalidRegex, LooseTvRegex, NoEpisodeRegex}

MoviePool == {DefaultMovieRegex, LooseMovieRegex}

SeqsUpTo(S, n) == UNION { [1..k -> S] : k \in 0..n }

\* replacements: none, or the default (".", " ")
ReplacementLists == { <<>>, << <<<<".">>, <<" ">>>> >> }

Configs ==
    { [tv_regex |-> tv, movie_regex |-> mv, replacements |-> rp] :
        tv \in SeqsUpTo(TvPool, MaxTvPatterns),
        mv \in SeqsUpTo(MoviePool, MaxMoviePatterns),
        rp \in ReplacementLists }

FileNames ==
    { <<"A", ".", "S", "1", "E", "2", ".", "x">>,                       \* A.S1E2.x
      <<"A", ".", "1", "9", ".", "S", "1", "E", "2", ".", "x">>,        \* A.19.S1E2.x
      <<"A", ".", "1", "9", ".", "B", ".", "x">>,                       \* A.19.B.x
      <<"A", ".", "S", "x", "E", "2", ".", "x">>,                       \* A.SxE2.x
      <<"A", "B", ".", "x">>,                                           \* AB.x
      <<"A", " ", "S", "1", "E", "2">>,                                 \* "A S1E2"
      <<".", "S", "1", "E", "2", ".", "x">>,                            \* .S1E2.x
      <<"A", ".", "S", "9", "9", "9", "9", "9", "9", "9", "9", "9", "9", "9",
        "E", "1", ".", "x">> }                                          \* A.S99999999999E1.x

\* the walker at rest, for the specifications that do not walk
WalkIdle ==
    /\ fs = <<>> /\ args_max_depth = None /\ max_depth = None
    /\ ignored_dirs = {} /\ iterator_queue = <<>>
    /\ emitted = <<>> /\ exhausted = <<>> /\ ended = FALSE

ParseInit ==
    /\ file_path \in FileNames
    /\ config \in Configs
    /\ stem_text = None
    /\ parsed_stem = None
    /\ parsed_file = None
    /\ parse_done = FALSE

\* the parser at rest, for the specifications that do not parse
ParseIdle ==
    /\ file_path = <<>> /\ config = <<>> /\ stem_text = None
    /\ parsed_stem = None /\ parsed_file = None /\ parse_done = FALSE

\* what parse_filepath computes on the way: the stem after the
\* replacements, what parse_stem returns for it, and the return value
ParseSteps(path, cfg) ==
    IF get_filestem(path) = None
    THEN {[stem |-> None, parsed |-> None, file |-> None]}
    ELSE { [stem |-> Some(NormalizedStem(path, cfg)), parsed |-> r,
            file |-> WithExtension(path, r)] :
             r \in {parse_stem(NormalizedStem(path, cfg), cfg)} }

\* one call of parse_filepath that returns Some(MediaFile)
ParseSome ==
    /\ ~parse_done
    /\ \E r \in ParseSteps(file_path, config) :
          /\ r.file # None
          /\ stem_text' = r.stem
          /\ parsed_stem' = r.parsed
          /\ parsed_file' = r.file
    /\ parse_done' = TRUE
    /\ UNCHANGED <<file_path, config>>
    /\ UNCHANGED <<walkerVars, pathVars, procVars>>

\* one call of parse_filepath that returns None
ParseNone ==
    /\ ~parse_done
    /\ \E r \in ParseSteps(file_path, config) :
          /\ r.file = None
          /\ stem_text' = r.stem
          /\ parsed_stem' = r.parsed
          /\ parsed_file' = r.file
    /\ parse_done' = TRUE
    /\ UNCHANGED <<file_path, config>>
    /\ UNCHANGED <<walkerVars, pathVars, procVars>>

(***************************************************************************)
(* media.rs: PathBuf and MediaFile::get_path.  A PathBuf is its text;      *)
(* two PathBufs are equal when their components are.                       *)
(***************************************************************************)
PushReplacing(buf, p) == p

\* PathBuf::push: an absolute p replaces the buffer, otherwise p is joined
\* to it with a separator unless the buffer is empty or ends with one
Push(buf, p) ==
    IF StartsWith(p, <<"/">>) THEN p
    ELSE IF buf # <<>> /\ buf[Len(buf)] # "/" THEN buf \o <<"/">> \o p
    ELSE buf \o p

RECURSIVE Segments(_)
\* the text between the separators
Segments(p) ==
    IF \A i \in DOMAIN p : p[i] # "/" THEN <<p>>
    ELSE LET k == CHOOSE i \in DOMAIN p : p[i] = "/" /\ \A j \in 1..(i - 1) : p[j] # "/"
         IN  <<SubSeq(p, 1, k - 1)>> \o Segments(Drop(p, k))

\* Path::components: empty segments are dropped, and so are "." segments
\* other than one that starts a relative path
Components(p) ==
    LET segs == Segments(p)
        keep == { i \in DOMAIN segs :
                    /\ segs[i] # <<>>
                    /\ segs[i] = <<".">> => (i = 1) }
        F[i \in 0..Len(segs)] ==
            IF i = 0 THEN <<>>
            ELSE IF i \in keep THEN Append(F[i - 1], segs[i]) ELSE F[i - 1]
    IN  [has_root |-> StartsWith(p, <<"/">>), parts |-> F[Len(segs)]]

\* PartialEq for PathBuf
PathEq(p, q) == Components(p) = Components(q)

\* MediaFile::get_path
get_path(mf) ==
    IF mf.media_data.type = "TvSeries"
    THEN Push(Push(Push(Push(<<>>, <<"T", "V">>), mf.name),
                   <<"S", "e", "a", "s", "o", "n", " ">> \o Display(mf.media_data.season)),
              mf.name \o <<" ", "-", " ", "s">> \o Pad2(mf.media_data.season)
                      \o <<"e">> \o Pad2(mf.media_data.episode)
                      \o <<".">> \o mf.extension)
    ELSE Push(Push(Push(<<>>, <<"M", "o", "v", "i", "e", "s">>),
                   mf.name \o <<" ", "(">> \o Display(mf.media_data.year) \o <<")">>),
              mf.name \o <<" ", "(">> \o Display(mf.media_data.year) \o <<")", ".">>
                      \o mf.extension)

\* the titles, numbers and extensions get_path is applied to
Titles ==
    { <<"A">>, <<"/", "A">>,
      <<"A", " ", "(", "1", ")", ".">>, <<"/", "A", " ", "(", "1", ")", ".">> }

Numbers == { <<"1">>, <<"1", "2", "3">> }

Extensions == { <<"x">>, <<" ", "-", " ", "s", "0", "1", "e", "0", "1", ".", "x">> }

PathInit ==
    /\ tv_file \in { MediaFile(t, TvSeries(se, ep), x) :
                       t \in Titles, se \in Numbers, ep \in Numbers, x \in Extensions }
    /\ movie_file \in { MediaFile(t, Movie(y), x) :
                          t \in Titles, y \in Numbers, x \in Extensions }
    /\ tv_path = None
    /\ movie_path = None

\* get_path at rest, for the specifications that do not call it alone
PathIdle ==
    /\ tv_file = <<>> /\ movie_file = <<>> /\ tv_path = None /\ movie_path = None

\* get_path on the TV file
GetTvPath ==
    /\ tv_path = None
    /\ tv_path' = Some(get_path(tv_file))
    /\ UNCHANGED <<tv_file, movie_file, movie_path>>
    /\ UNCHANGED <<walkerVars, parserVars, procVars>>

\* get_path on the movie file
GetMoviePath ==
    /\ movie_path = None
    /\ movie_path' = Some(get_path(movie_file))
    /\ UNCHANGED <<tv_file, movie_file, tv_path>>
    /\ UNCHANGED <<walkerVars, parserVars, procVars>>

(***************************************************************************)
(* main.rs: process_file, called by main for one path after the other.     *)
(* The answers of the collaborators are inputs of each call: what          *)
(* TvdbClient::search returns, whether fs::create_dir_all succeeds and     *)
(* whether the rename, copy or symlink succeeds.                           *)
(***************************************************************************)
MaxFiles == 2

Actions == {"Test", "Move", "Copy", "Symlink"}

\* Config::default, as far as the parser reads it
DefaultConfig ==
    [tv_regex |-> <<DefaultTvRegex>>, movie_regex |-> <<DefaultMovieRegex>>,
     replacements |-> << <<<<".">>, <<" ">>>> >>]

\* --output
OutputDir == <<"o">>

InputFiles ==
    { <<"A", ".", "S", "1", "E", "2", ".", "x">>,                       \* A.S1E2.x
      <<"A", ".", "1", "9", ".", "S", "1", "E", "2", ".", "x">>,        \* A.19.S1E2.x
      <<"A", ".", "1", "9", ".", "B", ".", "x">>,                       \* A.19.B.x
      <<"A", "B", ".", "x">> }                                          \* AB.x

\* what TvdbClient::search can return: an error, or a list of results
SearchErr == [ok |-> FALSE, data |-> <<>>]

SearchOk(names) == [ok |-> TRUE, data |-> names]

SearchResults == { SearchErr, SearchOk(<<>>), SearchOk(<< <<"B">> >>),
                   SearchOk(<< <<"B">>, <<"A">> >>) }

request_name_keeping_empty(mf, search) ==
    IF ~search.ok THEN [result |-> "Err", mf |-> mf]
    ELSE IF search.data # <<>>
    THEN [result |-> "Ok(true)", mf |-> [mf EXCEPT !.name = search.data[1]]]
    ELSE [result |-> "Ok(true)", mf |-> mf]

\* MediaFile::request_name: the Result it returns and the MediaFile it leaves
request_name(mf, search) ==
    IF ~search.ok THEN [result |-> "Err", mf |-> mf]
    ELSE IF search.data # <<>>
    THEN [result |-> "Ok(true)", mf |-> [mf EXCEPT !.name = search.data[1]]]
    ELSE [result |-> "Ok(false)", mf |-> mf]

ParentOfNone(path) == None

\* Path::parent: the path without its last component, None for a root or
\* an empty path
ParentOf(path) ==
    LET p == StripTrailing(path)
        cut == LastIndexOf(p, "/")
    IN  IF p = <<>> \/ p = <<"/">> THEN None
        ELSE IF cut = 0 THEN Some(<<>>)
        ELSE IF cut = 1 THEN Some(<<"/">>)
        ELSE Some(StripTrailing(SubSeq(p, 1, cut - 1)))

path_exists_never(p) == FALSE

\* final_path.exists()
path_exists(p) == \E d \in dest : PathEq(d.path, p)

\* the record of a call of process_file that returned before any file
\* operation
Skipped(path, why, search, mf, final) ==
    [path |-> path, outcome |-> why, search |-> search, media_file |-> mf,
     final_path |-> final, existed |-> FALSE, calls |-> <<>>,
     dest |-> dest, dirs |-> dirs, sources |-> sources]

\* the first match on the result of request_name (main.rs:286-299): TRUE
\* when process_file returns there
ReturnsAfterLookup(result) == result = "Ok(false)"

\* process_file(path, args, config, tvdb): the record of the call, with the
\* file system it leaves behind
process_file(path, search, mkdir_ok, op_ok) ==
    LET parsed == parse_filepath(path, config)
    IN  IF parsed = None THEN Skipped(path, "unparsed", None, None, None)
        ELSE
        LET req == request_name(parsed[1], search)
            media_file == req.mf
        IN  IF ReturnsAfterLookup(req.result)
            THEN Skipped(path, "not found", Some(search), Some(media_file), None)
            ELSE
            LET final_path == Push(args.output, get_path(media_file))
                existed == \E d \in dest : PathEq(d.path, final_path)
                base == [path |-> path, outcome |-> "exists", search |-> Some(search),
                         media_file |-> Some(media_file),
                         final_path |-> Some(final_path), existed |-> existed,
                         calls |-> <<>>, dest |-> dest, dirs |-> dirs,
                         sources |-> sources]
                parent_dir == ParentOf(final_path)
                mkdir == [op |-> "create_dir_all", dst |-> parent_dir[1],
                          ok |-> mkdir_ok, replaced |-> FALSE]
                fsop == [op |-> CASE args.action = "Move" -> "rename"
                                  [] args.action = "Copy" -> "copy"
                                  [] OTHER -> "symlink",
                         dst |-> final_path, ok |-> op_ok, replaced |-> existed]
                pre == IF parent_dir = None THEN <<>> ELSE <<mkdir>>
                made == IF parent_dir # None /\ mkdir_ok
                        THEN dirs \cup {parent_dir[1]} ELSE dirs
            IN  IF path_exists(final_path) THEN base
                ELSE IF args.action = "Test"
                THEN [base EXCEPT !.outcome = "test"]
                ELSE IF parent_dir # None /\ ~mkdir_ok
                THEN [base EXCEPT !.outcome = "no directory", !.calls = pre]
                ELSE IF ~op_ok
                THEN [base EXCEPT !.outcome = "failed", !.calls = Append(pre, fsop),
                                  !.dirs = made]
                ELSE [base EXCEPT
                        !.outcome = "done", !.calls = Append(pre, fsop), !.dirs = made,
                        !.dest = { d \in dest : ~PathEq(d.path, final_path) }
                                    \cup {[path |-> final_path, from |-> path]},
                        !.sources = IF args.action = "Move"
                                    THEN sources \ {path} ELSE sources]

\* the destinations a run can compute, from which the ones that exist
\* before the run are drawn
KnownDestinations ==
    { Push(OutputDir, get_path(MediaFile(t, md, <<"x">>))) :
        t \in { <<"B">> },
        md \in { TvSeries(<<"1">>, <<"2">>), Movie(<<"1", "9">>) } }

FileLists ==
    { f \in SeqsUpTo(InputFiles, MaxFiles) :
        f # <<>> /\ \A i, j \in DOMAIN f : f[i] = f[j] => i = j }

ProcInit ==
    /\ args \in { [action |-> a, output |-> OutputDir] : a \in Actions }
    /\ files \in FileLists
    /\ next_file = 1
    /\ dest \in {{}} \cup { {[path |-> d, from |-> <<>>]} : d \in KnownDestinations }
    /\ dirs = {}
    /\ sources = { files[i] : i \in DOMAIN files }
    /\ log = <<>>

ProcIdle ==
    /\ args = <<>> /\ files = <<>> /\ next_file = 0
    /\ dest = {} /\ dirs = {} /\ sources = {} /\ log = <<>>

\* one iteration of the loop of main: process_file on the next path
ProcessFile ==
    /\ next_file \in DOMAIN files
    /\ \E search \in SearchResults, mkdir_ok \in BOOLEAN, op_ok \in BOOLEAN :
          \E r \in {process_file(files[next_file], search, mkdir_ok, op_ok)} :
              /\ dest' = r.dest
              /\ dirs' = r.dirs
              /\ sources' = r.sources
              /\ log' = Append(log, [path |-> r.path, outcome |-> r.outcome,
                                     search |-> r.search, media_file |-> r.media_file,
                                     final_path |-> r.final_path, existed |-> r.existed,
                                     calls |-> r.calls])
    /\ next_file' = next_file + 1
    /\ UNCHANGED <<args, files, config>>
    /\ UNCHANGED <<file_path, stem_text, parsed_stem, parsed_file, parse_done>>
    /\ UNCHANGED <<walkerVars, pathVars>>

vars == <<walkerVars, parserVars, pathVars, procVars>>

\* the walk of one tree by DirWalker
Init == WalkInit /\ ParseIdle /\ PathIdle /\ ProcIdle

Next == NextSome \/ NextNone

Spec == Init /\ [][Next]_vars

\* parse_filepath on one path under one configuration
InitParse == ParseInit /\ WalkIdle /\ PathIdle /\ ProcIdle

NextParse == ParseSome \/ ParseNone

SpecParse == InitParse /\ [][NextParse]_vars

\* get_path on one TV file and one movie file
InitPath == PathInit /\ WalkIdle /\ ParseIdle /\ ProcIdle

NextPath == GetTvPath \/ GetMoviePath

SpecPath == InitPath /\ [][NextPath]_vars

\* main on a list of files, under the default configuration
InitProcess ==
    /\ ProcInit /\ WalkIdle /\ PathIdle
    /\ file_path = <<>> /\ config = DefaultConfig /\ stem_text = None
    /\ parsed_stem = None /\ parsed_file = None /\ parse_done = FALSE

NextProcess == ProcessFile

SpecProcess == InitProcess /\ [][NextProcess]_vars

(***************************************************************************)
(* Properties of the walker                                                *)
(***************************************************************************)
RECURSIVE Ancestors(_)
\* the directories strictly above node n, the root included
Ancestors(n) == IF n = 0 THEN {} ELSE {parent(n)} \cup Ancestors(parent(n))

EmittedNodes(at) == { emitted[i].node : i \in { j \in DOMAIN emitted : emitted[j].at = at } }

EmittedEntries == { emitted[i].node : i \in { j \in DOMAIN emitted : emitted[j].ok } }

NoDuplicates == \A i, j \in DOMAIN emitted : emitted[i] = emitted[j] => i = j

\* the next pull, seen from the current state
Pull == WalkLoop(iterator_queue, max_depth, exhausted)

\* C1 as stated: no returned entry has a basename in the exclusion set, and
\* no returned entry lies below a directory whose basename is in the set.
C1_AsStated ==
    \A n \in EmittedEntries :
        /\ get_filename(n) \notin ignored_dirs
        /\ \A a \in Ancestors(n) : get_filename(a) \notin ignored_dirs

\* C1 (amended): a directory entry whose basename is in the exclusion set is
\* never opened, so nothing below such an entry is ever returned, neither an
\* entry nor an error; the excluded entry itself is returned like any other
\* entry, and the name of the root is not looked at.
C1_ExcludedNeverEntered ==
    /\ \A i \in DOMAIN emitted :
          \A a \in Ancestors(emitted[i].node) \ {0} : fs[a].name \notin ignored_dirs
    /\ \A i \in DOMAIN emitted :
          (emitted[i].at = "open" /\ emitted[i].node # 0) =>
              fs[emitted[i].node].name \notin ignored_dirs
    /\ \A i \in DOMAIN iterator_queue :
          iterator_queue[i].dir # 0 => fs[iterator_queue[i].dir].name \notin ignored_dirs

\* an excluded, readable directory that has an entry was returned, and the
\* unbounded walk has ended
C1_Witness ==
    /\ ended /\ args_max_depth = None
    /\ \E n \in EmittedEntries :
          n # 0 /\ fs[n].kind = "dir" /\ fs[n].name \in ignored_dirs /\ Children(n) # <<>>

\* C2 as stated: with max_depth = 0 the entries of the root are produced,
\* and nothing else.
C2_AsStated ==
    (args_max_depth = Some(0) /\ fs[0].kind = "dir" /\ ended) =>
        /\ \A i \in DOMAIN Children(0) : Children(0)[i] \in EmittedNodes("entry")
        /\ \A i \in DOMAIN emitted : parent(emitted[i].node) = 0

\* C2 (amended): with max_depth = 0 nothing is produced at all, the first
\* pull already returns None; it is max_depth = 1 that produces the entries
\* of the root and no entry of any subdirectory.
C2_DepthZeroEmitsNothing ==
    /\ args_max_depth = Some(0) => (emitted = <<>> /\ Pull.item = None)
    /\ (args_max_depth = Some(1) /\ fs[0].kind = "dir") =>
          /\ \A i \in DOMAIN emitted :
                emitted[i].at = "entry" /\ parent(emitted[i].node) = 0
          /\ ended => \A i \in DOMAIN Children(0) :
                         Children(0)[i] \in EmittedNodes("entry")

C2_Witness ==
    /\ args_max_depth = Some(0) /\ fs[0].kind = "dir" /\ Children(0) # <<>>
    /\ ended /\ emitted = <<>>

\* C7 as stated: a root that is not a directory yields one error and then
\* None, whatever max_depth is.
C7_AsStated ==
    fs[0].kind = "file" =>
        /\ emitted \in {<<>>, <<OpenError(0)>>}
        /\ emitted = <<>> => (~ended /\ Pull.item = Some(OpenError(0)))
        /\ emitted # <<>> => Pull.item = None

\* C7 (amended): a root that is not a directory yields one error and then
\* None on every later pull when max_depth is None or at least 1; with
\* max_depth = 0 the error is dropped and every pull returns None.
C7_NotADirectory ==
    fs[0].kind = "file" =>
        IF args_max_depth = Some(0)
        THEN emitted = <<>> /\ Pull.item = None
        ELSE /\ emitted \in {<<>>, <<OpenError(0)>>}
             /\ emitted = <<>> => (~ended /\ Pull.item = Some(OpenError(0)))
             /\ emitted # <<>> => Pull.item = None

C7_Witness ==
    /\ fs[0].kind = "file" /\ args_max_depth # Some(0)
    /\ ended /\ emitted = <<OpenError(0)>>

\* the entries below the root the walk can get to: every directory above
\* them is readable and, the root apart, not excluded
Reachable ==
    { n \in Nodes \ {0} :
        \A a \in Ancestors(n) :
            fs[a].kind = "dir" /\ (a = 0 \/ fs[a].name \notin ignored_dirs) }

\* the directories, reachable and not excluded, that fail to open
FailingDirs ==
    { n \in Reachable : fs[n].kind = "baddir" /\ fs[n].name \notin ignored_dirs }

\* C8: a subdirectory that fails to open gives one error element when its
\* cursor is at the front of the queue and the budget is not spent, the
\* cursors behind it stay queued, and a walk that ends with budget left has
\* returned every reachable entry and one error per failing directory.
C8_OpenErrorDoesNotAbort ==
    /\ (iterator_queue # <<>> /\ ~Head(iterator_queue).ok /\ ~DepthSpent(max_depth)) =>
          /\ Pull.item = Some(OpenError(Head(iterator_queue).dir))
          /\ Pull.queue = Tail(iterator_queue)
          /\ Pull.depth = max_depth
    /\ NoDuplicates
    /\ (ended /\ ~DepthSpent(max_depth) /\ fs[0].kind = "dir") =>
          /\ EmittedNodes("entry") = Reachable
          /\ EmittedNodes("open") = FailingDirs

\* a failing directory sat in the queue ahead of a directory with entries,
\* its error was returned, and the walk went on to the end
C8_Witness ==
    /\ ended /\ ~DepthSpent(max_depth)
    /\ \E i, j \in DOMAIN emitted :
          /\ i < j
          /\ emitted[i].at = "open" /\ emitted[i].node # 0
          /\ emitted[j].ok /\ parent(emitted[j].node) # 0

(***************************************************************************)
(* Properties of the parser                                                *)
(***************************************************************************)
\* a TV pattern fully succeeds on s: it compiles, matches, has the three
\* captures, and season and episode are unsigned integers
TvFullySucceeds(s, re) ==
    /\ re.valid
    /\ \E c \in {Captures(re, s)} :
          /\ c # None
          /\ \A g \in {"name", "season", "episode"} : c[1][g] # None
          /\ ParseU32(c[1]["season"][1]) # None
          /\ ParseU32(c[1]["episode"][1]) # None

MovieFullySucceeds(s, re) ==
    /\ re.valid
    /\ \E c \in {Captures(re, s)} :
          /\ c # None
          /\ \A g \in {"name", "year"} : c[1][g] # None
          /\ ParseU32(c[1]["year"][1]) # None

TvEpisodeOf(s, re) ==
    [name |-> Captures(re, s)[1]["name"][1],
     media_data |-> TvSeries(ParseU32(Captures(re, s)[1]["season"][1])[1],
                             ParseU32(Captures(re, s)[1]["episode"][1])[1])]

MovieOf(s, re) ==
    [name |-> Captures(re, s)[1]["name"][1],
     media_data |-> Movie(ParseU32(Captures(re, s)[1]["year"][1])[1])]

TvHits == { i \in DOMAIN config.tv_regex : TvFullySucceeds(stem_text[1], config.tv_regex[i]) }

MovieHits ==
    { i \in DOMAIN config.movie_regex :
        MovieFullySucceeds(stem_text[1], config.movie_regex[i]) }

Least(S) == CHOOSE i \in S : \A j \in S : i <= j

Parsed == parse_done /\ stem_text # None

\* C5: parse_stem returns the TvEpisode of the first TV pattern, in declared
\* order, that fully succeeds; the patterns before it that fail at any step
\* are passed over, and no later pattern changes the result.
C5_FirstTvPatternWins ==
    Parsed =>
        \A tv \in {TvHits} :
            tv # {} =>
                parsed_stem = Some(TvEpisodeOf(stem_text[1], config.tv_regex[Least(tv)]))

\* the winner is the second pattern: the first one matched and was passed
\* over, and a third one would have given another result
C5_Witness ==
    /\ Parsed
    /\ \E tv \in {TvHits} :
          /\ tv # {}
          /\ Least(tv) > 1
          /\ \E i \in 1..(Least(tv) - 1) :
                /\ config.tv_regex[i].valid
                /\ Captures(config.tv_regex[i], stem_text[1]) # None
          /\ \E k \in tv :
                TvEpisodeOf(stem_text[1], config.tv_regex[k]) # parsed_stem[1]

\* C6: the TV chain comes first: a TvEpisode whenever some TV pattern fully
\* succeeds, the Movie of the first movie pattern that fully succeeds when
\* no TV pattern does, and nothing when no pattern of either chain does;
\* parse_filepath returns it with the extension of the path.
C6_TvBeforeMovie ==
    Parsed =>
        \A tv \in {TvHits} :
            /\ tv # {} => (parsed_stem # None /\ parsed_stem[1].media_data.type = "TvSeries")
            /\ tv = {} =>
                  \A mv \in {MovieHits} :
                      /\ mv # {} =>
                            parsed_stem =
                                Some(MovieOf(stem_text[1], config.movie_regex[Least(mv)]))
                      /\ mv = {} => (parsed_stem = None /\ parsed_file = None)
            /\ (parsed_stem # None /\ get_extension(file_path) # None) =>
                  /\ parsed_file # None
                  /\ parsed_file[1].name = parsed_stem[1].name
                  /\ parsed_file[1].media_data = parsed_stem[1].media_data

\* a TV pattern and a movie pattern both fully succeed, and the result is the
\* TV one
C6_Witness ==
    /\ Parsed /\ TvHits # {} /\ MovieHits # {}
    /\ parsed_file # None /\ parsed_file[1].media_data.type = "TvSeries"

(***************************************************************************)
(* Properties of get_path                                                  *)
(***************************************************************************)
HasDot(x) == \E i \in DOMAIN x : x[i] = "."

IsAbsolute(t) == StartsWith(t, <<"/">>)

BothPaths == tv_path # None /\ movie_path # None

LookedUp(search) == { i \in DOMAIN log : log[i].search = Some(search) }

\* the title parse_filepath gave the file of a call
ParsedTitle(i) == parse_filepath(log[i].path, config)[1].name

\* C3: when the lookup returns an error the file is skipped: no directory
\* is created and no move, copy or symlink is made for it.
C3_LookupErrorSkips ==
    \A i \in LookedUp(SearchErr) : log[i].calls = <<>>

\* C4: when the lookup succeeds with no candidate the file is skipped: the
\* title stays as parsed, no destination is resolved, no file operation is
\* made, and the run goes on with the next file.
C4_NoCandidateSkips ==
    \A i \in LookedUp(SearchOk(<<>>)) :
        /\ log[i].outcome = "not found"
        /\ log[i].media_file[1].name = ParsedTitle(i)
        /\ log[i].final_path = None
        /\ log[i].calls = <<>>
        /\ next_file > i

\* a file without candidate was skipped and the next file was moved, copied
\* or linked
C4_Witness ==
    \E i \in LookedUp(SearchOk(<<>>)) :
        /\ i + 1 \in DOMAIN log
        /\ log[i + 1].outcome = "done"

\* C10: in every mode, when the destination exists at the time of the check
\* nothing is created, moved, copied or linked for the file, and the file
\* found there stays the one it was.
C10_ExistingDestinationSkips ==
    /\ \A i \in DOMAIN log :
          log[i].existed =>
              /\ log[i].calls = <<>>
              /\ \E d \in dest : PathEq(d.path, log[i].final_path[1]) /\ d.from # log[i].path
    /\ \A i \in DOMAIN log : \A c \in DOMAIN log[i].calls : ~log[i].calls[c].replaced
    /\ \A d, e \in dest : PathEq(d.path, e.path) => d = e

\* outside the test mode, a file whose destination was written earlier in
\* the same run was left alone
C10_Witness ==
    /\ args.action # "Test"
    /\ \E i, j \in DOMAIN log :
          /\ j < i
          /\ log[j].outcome = "done"
          /\ log[i].existed /\ log[i].final_path = log[j].final_path

\* the calls of process_file that got past the check of the destination
Attempted == { i \in DOMAIN log : log[i].outcome \in {"test", "no directory", "failed", "done"} }

FileOps == {"rename", "copy", "symlink"}

\* C11: in the test mode the run creates no directory and moves, copies and
\* links nothing, whatever the files are; in every other mode a call that
\* gets past the check of the destination first calls create_dir_all on the
\* parent of the destination, attempts its operation only after that call
\* succeeded, and attempts nothing when it failed.
C11_TestTouchesNothing ==
    /\ args.action = "Test" =>
          /\ dirs = {}
          /\ sources = { files[i] : i \in DOMAIN files }
          /\ \A d \in dest : d.from = <<>>
          /\ Cardinality(dest) <= 1
          /\ \A i \in DOMAIN log : log[i].calls = <<>>
    /\ args.action \in Actions \ {"Test"} =>
          \A i \in Attempted :
              \E c \in {log[i].calls} :
                  /\ c # <<>>
                  /\ c[1].op = "create_dir_all"
                  /\ StartsWith(log[i].final_path[1], c[1].dst \o <<"/">>)
                  /\ c[1].ok => c[1].dst \in dirs
                  /\ ~c[1].ok => Len(c) = 1
                  /\ \A k \in DOMAIN c :
                        c[k].op \in FileOps =>
                            k = 2 /\ c[1].ok /\ c[k].dst = log[i].final_path[1]

\* outside the test mode, the directory of one file could not be created
\* and the next file was moved, copied or linked
C11_Witness ==
    /\ args.action \in Actions \ {"Test"}
    /\ \E i, j \in Attempted :
          /\ i < j
          /\ log[i].outcome = "no directory" /\ Len(log[i].calls) = 1
          /\ log[j].outcome = "done" /\ Len(log[j].calls) = 2

\* the test mode got past the check of the destination for two files
C11_TestReached ==
    /\ args.action = "Test"
    /\ \E i, j \in Attempted : i < j

(***************************************************************************)
(* Properties of the title parse_filepath returns                          *)
(***************************************************************************)
\* C12: every MediaFile parse_filepath returns has a non-empty name, for
\* every stem, replacement list and pattern list: a pattern whose name
\* capture is empty produces no result.
C12_TitleNonEmpty ==
    (parse_done /\ parsed_file # None) => parsed_file[1].name # <<>>

(***************************************************************************)
(* Properties of the depth budget of the walker                            *)
(***************************************************************************)
\* the cursors in the order they were pushed on the queue: the root, then
\* one per directory entry returned that is not excluded, failed opens
\* included
Discovered ==
    LET F[i \in 0..Len(emitted)] ==
            IF i = 0 THEN <<0>>
            ELSE IF /\ emitted[i].ok /\ emitted[i].at = "entry"
                    /\ fs[emitted[i].node].kind \in {"dir", "baddir"}
                    /\ fs[emitted[i].node].name \notin ignored_dirs
                 THEN Append(F[i - 1], emitted[i].node)
                 ELSE F[i - 1]
    IN  F[Len(emitted)]

\* the cursors among them that opened
Opened ==
    LET ok(n) == fs[n].kind = "dir" IN SelectSeq(Discovered, ok)

FirstN(seq, n) == { seq[i] : i \in { j \in DOMAIN seq : j <= n } }

\* the elements returned so far that a cursor read: entries and slot errors
ReadFromCursors == EmittedNodes("entry")

Budgeted == args_max_depth # None /\ args_max_depth[1] >= 1

\* the accounting of the budget, common to both statements of C13
BudgetAccounting ==
    /\ max_depth[1] >= 0
    /\ max_depth[1] = args_max_depth[1] - Len(exhausted)
    /\ (iterator_queue # <<>> /\ ~DepthSpent(max_depth)
          /\ (~Head(iterator_queue).ok \/ Head(iterator_queue).rest # <<>>)) =>
          Pull.item # None /\ Pull.depth = max_depth /\ Pull.ex = exhausted
    /\ Pull.depth[1] = max_depth[1] - (Len(Pull.ex) - Len(exhausted))
    /\ Len(exhausted) = args_max_depth[1] => Pull.item = None
    /\ \A k \in DOMAIN exhausted :
          \A c \in { Children(exhausted[k])[i] : i \in DOMAIN Children(exhausted[k]) } :
              c \in ReadFromCursors

\* C13 as stated: with max_depth = N >= 1 the budget goes down by one per
\* exhausted cursor, never otherwise and never below zero, the walk is over
\* once N cursors are exhausted, and every entry comes from one of the first
\* N cursors in the order they were queued.
C13_AsStated ==
    Budgeted =>
        /\ BudgetAccounting
        /\ \A n \in ReadFromCursors : parent(n) \in FirstN(Discovered, args_max_depth[1])

\* C13 (amended): the same, with the first N cursors counted among the
\* ones that opened: a queued failure to open returns its error, is not
\* exhausted and takes nothing from the budget.  The exhausted cursors are
\* the first ones that opened, in that order.
C13_BudgetPerExhaustedCursor ==
    Budgeted =>
        /\ BudgetAccounting
        /\ Len(exhausted) <= Len(Opened)
        /\ exhausted = SubSeq(Opened, 1, Len(exhausted))
        /\ \A n \in ReadFromCursors : parent(n) \in FirstN(Opened, args_max_depth[1])

\* a failure to open was queued ahead of a readable directory, the entries
\* of that directory were returned although its cursor was queued after
\* the first N, and the budget ran out with a readable directory still
\* queued
C13_Witness ==
    /\ Budgeted /\ ended
    /\ Len(exhausted) = args_max_depth[1]
    /\ Len(Opened) > Len(exhausted)
    /\ \E n \in ReadFromCursors :
          parent(n) \notin FirstN(Discovered, args_max_depth[1])

(***************************************************************************)
(* Properties of the unlimited walk                                        *)
(***************************************************************************)
\* no budget, nothing excluded, and a tree of readable directories and
\* files only
PlainWalk ==
    /\ args_max_depth = None
    /\ ignored_dirs = {}
    /\ \A n \in Nodes : fs[n].kind \in {"dir", "file"}
    /\ fs[0].kind = "dir"

\* the directories of the cursors in the queue, front first
QueuedDirs == [i \in DOMAIN iterator_queue |-> iterator_queue[i].dir]

\* C14: without budget, exclusions and errors the walk returns every file
\* and directory below the root (every node under directories only) exactly
\* once and then, and only then, end-of-sequence; the cursor of a directory
\* is queued once, when its entry is returned.
C14_EveryEntryExactlyOnce ==
    PlainWalk =>
        /\ \A i \in DOMAIN emitted : emitted[i].ok /\ emitted[i].node \in Reachable
        /\ \A i, j \in DOMAIN emitted : emitted[i].node = emitted[j].node => i = j
        /\ Pull.item = None <=> EmittedEntries = Reachable
        /\ ended => EmittedEntries = Reachable
        /\ exhausted \o QueuedDirs = Discovered
        /\ \A i, j \in DOMAIN Discovered : Discovered[i] = Discovered[j] => i = j
        /\ \A n \in Reachable :
              (n \in EmittedEntries /\ fs[n].kind = "dir") <=>
                  (\E i \in DOMAIN Discovered : Discovered[i] = n)

\* a tree with a directory below a directory was walked to the end
C14_Witness ==
    /\ PlainWalk /\ ended
    /\ Reachable = Nodes \ {0}
    /\ \E n \in Nodes \ {0} : fs[n].kind = "dir" /\ parent(n) # 0
    /\ Len(emitted) = NumNodes
    /\ Len(exhausted) = Cardinality({ n \in Nodes : fs[n].kind = "dir" })

====
